---- MODULE Spec2Model ----
(***************************************************************************)
(* The streaming-transcript client of                                      *)
(* src/src/components/notes/MarkdownEditor.tsx (useTranscriptionWebSocket):*)
(* two WebSocket connections (control, data), the inbound frame handler,  *)
(* the 750 ms fallback timer and the transcript state.                     *)
(*                                                                         *)
(* Strings are sequences of one-character strings, so that trim(),         *)
(* endsWith() and concatenation are computed as the code computes them.    *)
(* Every handler of the code is one action; the handlers are closures, so  *)
(* they stay attached to a socket after the refs stop pointing at it.      *)
(***************************************************************************)
EXTENDS Integers, Sequences, FiniteSets, TLC

\* ------------------------------------------------------------------ bounds
\* Most sockets ever created. connect() creates them in pairs and needs two
\* free: two sessions under Spec, one under StreamSpec.
MaxSockets == 4
MaxStreamSockets == 2
\* Most text-carrying frames (realtime / completed / fullSentence) processed.
MaxFrames == 2

\* --------------------------------------------------------------- constants
NoSocket == 0
NoError == "null"
\* window.setTimeout handles are positive integers; null is modelled as the empty set.
NoTimer == {}

\* The texts the server sends: empty, whitespace only, without terminal
\* punctuation, and ending in each terminator (one of them padded).
Texts ==
  { <<>>, <<" ">>, <<"a">>, <<"a", ".">>, <<" ", "b", "?", " ">>, <<"c", "!">> }

FrameTypes == {"realtime", "completed", "fullSentence", "other", "malformed"}

\* An inbound payload: its type, whether it has a text field, and the text.
Frames ==
  [type : FrameTypes, has : {TRUE}, text : Texts]
    \cup [type : FrameTypes, has : {FALSE}, text : {<<>>}]

\* The frames drawn where the connections' interleavings are explored in full:
\* a provisional text that looks complete, its finalization, an unknown type.
CoreFrames ==
  { [type |-> "realtime", has |-> TRUE, text |-> <<"a", ".">>],
    [type |-> "completed", has |-> TRUE, text |-> <<"a", ".">>],
    [type |-> "other", has |-> FALSE, text |-> <<>>] }

VARIABLES
  socks,            \* every WebSocket created so far, by handle (index)
  wsRef,            \* wsRef.current: handle of the data socket, or NoSocket
  controlWsRef,     \* controlWsRef.current: handle of the control socket
  status,           \* useState status
  error,            \* useState error
  realtimeText,     \* useState realtimeText
  fullSentences,    \* useState fullSentences
  fullTranscript,   \* useState fullTranscript
  debounceTimerRef, \* debounceTimerRef.current: NoTimer or {the pending timer}
  timers,           \* the timeouts the browser holds and has not fired or cleared
  calls,            \* ghost: the invocations of onProcessSentence, in order
  stopSent,         \* ghost: the control sockets the stop command was sent on
  utt,              \* ghost: the server's utterance counter (finalized frames so far)
  nframes,          \* ghost: text-carrying frames processed so far
  discTimer,        \* ghost: the last disconnect() found a timer pending, and no
                    \* connect() got past its guards since
  mount,            \* "mounted", "grace" (cleanup waits 100 ms), "unmounted"
  last              \* ghost: the handler that ran last and what it raised

vars ==
  << socks, wsRef, controlWsRef, status, error, realtimeText, fullSentences,
     fullTranscript, debounceTimerRef, timers, calls, stopSent, utt, nframes,
     discTimer, mount, last >>

\* ---------------------------------------------------------- pure functions
IsSpace(c) == c = " "

RECURSIVE TrimStart(_)
TrimStart(s) ==
  IF Len(s) > 0 /\ IsSpace(s[1]) THEN TrimStart(Tail(s)) ELSE s

RECURSIVE TrimEnd(_)
TrimEnd(s) ==
  IF Len(s) > 0 /\ IsSpace(s[Len(s)]) THEN TrimEnd(SubSeq(s, 1, Len(s) - 1)) ELSE s

\* String.prototype.trim
Trim(s) == TrimEnd(TrimStart(s))

\* A JavaScript string is truthy when it is not empty.
Truthy(s) == Len(s) > 0

\* data.text || ''
TextOf(f) == IF f.has /\ Truthy(f.text) THEN f.text ELSE <<>>

\* ['.', '?', '!'].some(p => trimmedText.endsWith(p))
Terminators == {".", "?", "!"}

EndsWithTerminator(t) == Len(t) > 0 /\ t[Len(t)] \in Terminators

\* trimmedText.length > 0 && [...].some(p => trimmedText.endsWith(p))
LooksComplete(t) == Len(t) > 0 /\ EndsWithTerminator(t)

\* ------------------------------------------------------------------ sockets
Handles == 1..Len(socks)

IsOpen(h) == h # NoSocket /\ socks[h].st = "OPEN"

\* A socket as the constructor leaves it. cap is the value of `status` the
\* handlers close over: connect is re-created per render ([status, ...] deps),
\* so they see the status of the render connect() was called from.
\* pre (ghost): a disconnect() has run since the socket was created.
NewSocket(kind) ==
  [kind |-> kind, st |-> "CONNECTING", cap |-> status, pre |-> FALSE]

\* WebSocket.close(): no effect on a closed socket, else the closing handshake starts.
CloseCall(s) ==
  IF s.st \in {"CONNECTING", "OPEN"} THEN [s EXCEPT !.st = "CLOSING"] ELSE s

\* What a handler leaves for the observer: its name and the notifications
\* (toast) it raised.
Ran(op, toasts) == [op |-> op, toasts |-> toasts]

\* --------------------------------------------------------------------- init
Init ==
  /\ socks = <<>>
  /\ wsRef = NoSocket
  /\ controlWsRef = NoSocket
  /\ status = "disconnected"
  /\ error = NoError
  /\ realtimeText = <<>>
  /\ fullSentences = <<>>
  /\ fullTranscript = <<>>
  /\ debounceTimerRef = NoTimer
  /\ timers = {}
  /\ calls = <<>>
  /\ stopSent = {}
  /\ utt = 1
  /\ nframes = 0
  /\ discTimer = FALSE
  /\ mount = "mounted"
  /\ last = Ran("init", 0)

\* ---------------------------------------------------------------- callback
\* const { onProcessSentence } = options || {}: the consumer registers a callback.
HasCallback == TRUE

\* onProcessSentence(text). Ghosts of the record: who finalized (src), the
\* utterance, and the text of the frame the sentence was taken from (raw).
Invoke(text, src, u, raw) ==
  IF HasCallback
    THEN Append(calls, [text |-> text, src |-> src, utt |-> u, raw |-> raw])
    ELSE calls

\* ----------------------------------------------------------------- connect()
\* The two early returns of connect(): either ref holds an OPEN socket.
ConnectGuarded == IsOpen(wsRef) \/ IsOpen(controlWsRef)

ConnectNoop ==
  /\ mount = "mounted"
  /\ ConnectGuarded
  /\ last' = Ran("connectNoop", 0)
  /\ UNCHANGED << socks, wsRef, controlWsRef, status, error, realtimeText,
                  fullSentences, fullTranscript, debounceTimerRef, timers,
                  calls, stopSent, utt, nframes, mount,
                  discTimer >>

\* A connect() that starts a new capture session with an empty transcript.
ConnectOpenResets ==
  /\ mount = "mounted"
  /\ ~ConnectGuarded
  /\ socks' = socks \o << NewSocket("control"), NewSocket("data") >>
  /\ controlWsRef' = Len(socks) + 1
  /\ wsRef' = Len(socks) + 2
  /\ status' = "connecting"
  /\ error' = NoError
  /\ fullSentences' = <<>>
  /\ fullTranscript' = <<>>
  /\ discTimer' = FALSE
  /\ last' = Ran("connect", 0)
  /\ UNCHANGED << realtimeText, debounceTimerRef,
                  timers, calls, stopSent, utt, nframes, mount >>

\* Both constructors succeed: control first, then data; handlers attached.
ConnectOpen ==
  /\ mount = "mounted"
  /\ ~ConnectGuarded
  /\ socks' = socks \o << NewSocket("control"), NewSocket("data") >>
  /\ controlWsRef' = Len(socks) + 1
  /\ wsRef' = Len(socks) + 2
  /\ status' = "connecting"
  /\ error' = NoError
  /\ discTimer' = FALSE
  /\ last' = Ran("connect", 0)
  /\ UNCHANGED << realtimeText, fullSentences, fullTranscript, debounceTimerRef,
                  timers, calls, stopSent, utt, nframes, mount >>

\* new WebSocket('ws://localhost:8011') throws: the outer catch runs and the
\* data connection is never attempted.
ConnectControlThrows ==
  /\ mount = "mounted"
  /\ ~ConnectGuarded
  /\ status' = "error"
  /\ error' = "control-throw"
  /\ discTimer' = FALSE
  /\ last' = Ran("connectThrow", 1)
  /\ UNCHANGED << socks, wsRef, controlWsRef, realtimeText, fullSentences,
                  fullTranscript, debounceTimerRef, timers, calls, stopSent,
                  utt, nframes, mount >>

\* -------------------------------------------------------------- socket events
\* onopen: the control handler only logs; the data handler sets 'connected'.
OnOpenStatus(kind) == IF kind = "data" THEN "connected" ELSE status

SocketOpen(h) ==
  /\ socks[h].st = "CONNECTING"
  /\ socks' = [socks EXCEPT ![h].st = "OPEN"]
  /\ status' = OnOpenStatus(socks[h].kind)
  /\ last' = Ran("open", 0)
  /\ UNCHANGED << wsRef, controlWsRef, error, realtimeText, fullSentences,
                  fullTranscript, debounceTimerRef, timers, calls, stopSent,
                  utt, nframes, mount,
                  discTimer >>

\* setError of controlWs.onerror / ws.onerror
ErrorMessage(kind) == IF kind = "control" THEN "control-error" ELSE "data-error"

\* The transport fails (while connecting, open or closing): readyState becomes
\* CLOSED, the error event is dispatched, the close event is still to come.
SocketError(h) ==
  /\ socks[h].st \in {"CONNECTING", "OPEN", "CLOSING"}
  /\ socks' = [socks EXCEPT ![h].st = "FAILED"]
  /\ status' = "error"
  /\ error' = ErrorMessage(socks[h].kind)
  /\ last' = Ran("error", 1)
  /\ UNCHANGED << wsRef, controlWsRef, realtimeText, fullSentences,
                  fullTranscript, debounceTimerRef, timers, calls, stopSent,
                  utt, nframes, mount,
                  discTimer >>

\* onclose of either socket: if (status !== 'disconnected') setStatus('disconnected'),
\* where status is the value the handler closed over.
OnCloseStatus(cap) == IF cap # "disconnected" THEN "disconnected" ELSE status

\* The close event: after close(), after a failure, or when the server closes.
SocketClose(h) ==
  /\ socks[h].st \in {"OPEN", "CLOSING", "FAILED"}
  /\ socks' = [socks EXCEPT ![h].st = "CLOSED"]
  /\ status' = OnCloseStatus(socks[h].cap)
  /\ last' = Ran("close", 0)
  /\ UNCHANGED << wsRef, controlWsRef, error, realtimeText, fullSentences,
                  fullTranscript, debounceTimerRef, timers, calls, stopSent,
                  utt, nframes, mount,
                  discTimer >>

\* ------------------------------------------------------------- ws.onmessage
\* A message event is dispatched only on an OPEN data socket.
CanReceive(h) == socks[h].kind = "data" /\ socks[h].st = "OPEN"

\* A branch test that knows 'fullSentence' only.
IsFinalizedFullOnly(f) == f.type = "fullSentence"

\* if (data.type === 'completed' || data.type === 'fullSentence')
IsFinalized(f) == f.type = "completed" \/ f.type = "fullSentence"

\* if (onProcessSentence && newSentence)
EmitsGolden(newSentence) == HasCallback /\ Truthy(newSentence)

\* A finalized branch that hands the text on without clearing the timeout.
FinalizedFrameKeepsTimer(h, f) ==
  /\ CanReceive(h)
  /\ IsFinalized(f)
  /\ fullSentences' = Append(fullSentences, TextOf(f))
  /\ fullTranscript' = fullTranscript \o <<" ">> \o TextOf(f)
  /\ calls' = IF EmitsGolden(TextOf(f)) THEN Invoke(TextOf(f), "server", utt, f.text)
                                       ELSE calls
  /\ utt' = utt + 1
  /\ nframes' = nframes + 1
  /\ last' = Ran(f.type, 0)
  /\ UNCHANGED << socks, wsRef, controlWsRef, status, error, realtimeText,
                  debounceTimerRef, timers, stopSent, mount,
                  discTimer >>

\* The 'completed' / 'fullSentence' branch.
FinalizedFrame(h, f) ==
  /\ CanReceive(h)
  /\ IsFinalized(f)
  /\ timers' = timers \ debounceTimerRef
  /\ debounceTimerRef' = NoTimer
  /\ fullSentences' = Append(fullSentences, TextOf(f))
  /\ fullTranscript' = fullTranscript \o <<" ">> \o TextOf(f)
  /\ calls' = IF EmitsGolden(TextOf(f)) THEN Invoke(TextOf(f), "server", utt, f.text)
                                       ELSE calls
  /\ utt' = utt + 1
  /\ nframes' = nframes + 1
  /\ last' = Ran(f.type, 0)
  /\ UNCHANGED << socks, wsRef, controlWsRef, status, error, realtimeText,
                  stopSent, mount,
                  discTimer >>

\* The timeout created by window.setTimeout: the callback closes over
\* trimmedText. raw and utt are ghosts: the frame's text and the utterance.
NewTimer(currentText) ==
  [text |-> Trim(currentText), raw |-> currentText, utt |-> utt]

\* A rolling debounce: every complete-looking provisional text arms a timer.
ArmsRolling(currentText) == LooksComplete(Trim(currentText))

\* An arming test that looks at the untrimmed text and not at the pending timer.
ArmsUntrimmed(currentText) == LooksComplete(currentText)

\* if (trimmedText.length > 0 && ends with a terminator) if (!debounceTimerRef.current)
Arms(currentText) ==
  LooksComplete(Trim(currentText)) /\ debounceTimerRef = NoTimer

\* A 'realtime' branch that merges the new text into the previous one.
RealtimeFrameMerges(h, f) ==
  /\ CanReceive(h)
  /\ f.type = "realtime"
  /\ realtimeText' = realtimeText \o TextOf(f)
  /\ IF Arms(TextOf(f))
       THEN /\ debounceTimerRef' = {NewTimer(TextOf(f))}
            /\ timers' = timers \cup {NewTimer(TextOf(f))}
       ELSE UNCHANGED << debounceTimerRef, timers >>
  /\ nframes' = nframes + 1
  /\ last' = Ran("realtime", 0)
  /\ UNCHANGED << socks, wsRef, controlWsRef, status, error, fullSentences,
                  fullTranscript, calls, stopSent, utt, mount,
                  discTimer >>

\* The 'realtime' branch.
RealtimeFrame(h, f) ==
  /\ CanReceive(h)
  /\ f.type = "realtime"
  /\ realtimeText' = TextOf(f)
  /\ IF Arms(TextOf(f))
       THEN /\ debounceTimerRef' = {NewTimer(TextOf(f))}
            /\ timers' = timers \cup {NewTimer(TextOf(f))}
       ELSE UNCHANGED << debounceTimerRef, timers >>
  /\ nframes' = nframes + 1
  /\ last' = Ran("realtime", 0)
  /\ UNCHANGED << socks, wsRef, controlWsRef, status, error, fullSentences,
                  fullTranscript, calls, stopSent, utt, mount,
                  discTimer >>

\* A handler that surfaces an unusable frame as a connection error.
IgnoredFrameSurfaced(h, f) ==
  /\ CanReceive(h)
  /\ f.type \in {"other", "malformed"}
  /\ status' = "error"
  /\ error' = "data-error"
  /\ last' = Ran(f.type, 1)
  /\ UNCHANGED << socks, wsRef, controlWsRef, realtimeText,
                  fullSentences, fullTranscript, debounceTimerRef, timers,
                  calls, stopSent, utt, nframes, mount,
                  discTimer >>

\* Any other type falls through both branches; a payload JSON.parse rejects
\* is caught and logged.
IgnoredFrame(h, f) ==
  /\ CanReceive(h)
  /\ f.type \in {"other", "malformed"}
  /\ last' = Ran(f.type, 0)
  /\ UNCHANGED << socks, wsRef, controlWsRef, status, error, realtimeText,
                  fullSentences, fullTranscript, debounceTimerRef, timers,
                  calls, stopSent, utt, nframes, mount,
                  discTimer >>

\* ------------------------------------------------------------ fallback timer
\* A callback that reads the live text when it runs, not the text it closed over.
TimerTextLive(t) == Trim(realtimeText)

\* What the timeout's callback passes to onProcessSentence.
TimerText(t) == t.text

\* A timeout callback that emits but forgets to null the ref.
TimerFireKeepsRef(t) ==
  /\ t \in timers
  /\ calls' = Invoke(TimerText(t), "timer", t.utt, t.raw)
  /\ timers' = timers \ {t}
  /\ last' = Ran("timer", 0)
  /\ UNCHANGED << socks, wsRef, controlWsRef, status, error, realtimeText,
                  fullSentences, fullTranscript, debounceTimerRef, stopSent,
                  utt, nframes, mount,
                  discTimer >>

\* The 750 ms elapse for a timeout that was not cleared.
TimerFire(t) ==
  /\ t \in timers
  /\ calls' = Invoke(TimerText(t), "timer", t.utt, t.raw)
  /\ debounceTimerRef' = NoTimer
  /\ timers' = timers \ {t}
  /\ last' = Ran("timer", 0)
  /\ UNCHANGED << socks, wsRef, controlWsRef, status, error, realtimeText,
                  fullSentences, fullTranscript, stopSent, utt, nframes, mount,
                  discTimer >>

\* -------------------------------------------------------------- disconnect()
\* A disconnect() that closes the data socket only.
DisconnectClosedDataOnly == {wsRef} \ {NoSocket}

\* The sockets disconnect() calls close() on: the two the refs hold.
DisconnectClosed == {controlWsRef, wsRef} \ {NoSocket}

\* What disconnect() sends on the control socket before closing it.
DisconnectSends == {}

Disconnect ==
  /\ mount = "mounted"
  /\ stopSent' = stopSent \cup DisconnectSends
  /\ socks' = [h \in Handles |->
                 [(IF h \in DisconnectClosed THEN CloseCall(socks[h]) ELSE socks[h])
                    EXCEPT !.pre = TRUE]]
  /\ controlWsRef' = NoSocket
  /\ wsRef' = NoSocket
  /\ timers' = timers \ debounceTimerRef
  /\ debounceTimerRef' = NoTimer
  /\ status' = "disconnected"
  /\ discTimer' = (debounceTimerRef # NoTimer)
  /\ last' = Ran("disconnect", 0)
  /\ UNCHANGED << error, realtimeText, fullSentences, fullTranscript, calls,
                  utt, nframes, mount >>

\* ---------------------------------------------------------- unmount cleanup
\* sendStopCommand(): sends only when the control socket is OPEN, and then
\* resolves after 100 ms; otherwise it resolves at once.
StopCommandSent == IsOpen(controlWsRef)

\* The .then() of the cleanup: close and release both sockets.
CleanupClose ==
  /\ socks' = [h \in Handles |->
                 IF h \in {controlWsRef, wsRef} THEN CloseCall(socks[h]) ELSE socks[h]]
  /\ controlWsRef' = NoSocket
  /\ wsRef' = NoSocket
  /\ mount' = "unmounted"

Unmount ==
  /\ mount = "mounted"
  /\ IF StopCommandSent
       THEN /\ stopSent' = stopSent \cup {controlWsRef}
            /\ mount' = "grace"
            /\ UNCHANGED << socks, wsRef, controlWsRef >>
       ELSE /\ CleanupClose
            /\ UNCHANGED stopSent
  /\ last' = Ran("unmount", 0)
  /\ UNCHANGED << status, error, realtimeText, fullSentences, fullTranscript,
                  debounceTimerRef, timers, calls, utt, nframes,
                  discTimer >>

GraceElapsed ==
  /\ mount = "grace"
  /\ CleanupClose
  /\ last' = Ran("grace", 0)
  /\ UNCHANGED << status, error, realtimeText, fullSentences, fullTranscript,
                  debounceTimerRef, timers, calls, stopSent, utt, nframes,
                  discTimer >>

\* --------------------------------------------------------------------- spec
\* connect(), bounded by the sockets created so far.
ConnectWithin(max) == Len(socks) + 2 <= max /\ ConnectOpen

\* The whole client under the core frames: two sessions, every interleaving
\* of the four sockets' events, disconnect().
Next ==
  \/ ConnectNoop
  \/ ConnectWithin(MaxSockets)
  \/ \E h \in Handles : SocketOpen(h)
  \/ \E h \in Handles : SocketError(h)
  \/ \E h \in Handles : SocketClose(h)
  \/ \E h \in Handles, f \in CoreFrames : nframes < MaxFrames /\ FinalizedFrame(h, f)
  \/ \E h \in Handles, f \in CoreFrames : nframes < MaxFrames /\ RealtimeFrame(h, f)
  \/ \E h \in Handles, f \in CoreFrames : IgnoredFrame(h, f)
  \/ \E t \in timers : TimerFire(t)
  \/ Disconnect

Spec == Init /\ [][Next]_vars

\* One session under every frame: the stream of one data connection.
StreamNext ==
  \/ ConnectNoop
  \/ ConnectWithin(MaxStreamSockets)
  \/ \E h \in Handles : SocketOpen(h)
  \/ \E h \in Handles : SocketError(h)
  \/ \E h \in Handles : SocketClose(h)
  \/ \E h \in Handles, f \in Frames : nframes < MaxFrames /\ FinalizedFrame(h, f)
  \/ \E h \in Handles, f \in Frames : nframes < MaxFrames /\ RealtimeFrame(h, f)
  \/ \E h \in Handles, f \in Frames : IgnoredFrame(h, f)
  \/ \E t \in timers : TimerFire(t)
  \/ Disconnect

StreamSpec == Init /\ [][StreamNext]_vars

\* Next with a control constructor that may throw.
ThrowNext ==
  \/ Next
  \/ ConnectControlThrows

ThrowSpec == Init /\ [][ThrowNext]_vars

\* The hook's unmount cleanup on top of Next.
UnmountNext ==
  \/ Next
  \/ Unmount
  \/ GraceElapsed

UnmountSpec == Init /\ [][UnmountNext]_vars

\* ------------------------------------------------------------------ claims
\* The calls made for utterance u.
CallsOf(u) == {i \in DOMAIN calls : calls[i].utt = u}

ConnectOps == {"connectNoop", "connect", "connectThrow"}

\* C1: every utterance the server finalized with a non-empty text got exactly
\* one call of the per-sentence callback, the server's, whether or not the
\* fallback timer expired before the finalized frame arrived.
C1_OneEmissionPerFinalizedUtterance ==
  \A u \in 1..(utt - 1) :
    Truthy(fullSentences[u]) =>
      /\ Cardinality(CallsOf(u)) = 1
      /\ \A i \in CallsOf(u) : calls[i].src = "server"

\* C2: an utterance gets at most one synthesized sentence, however many
\* punctuation-ending provisional frames arrive before or after the timer fires.
C2_OneSynthesizedPerUtterance ==
  \A u \in 1..utt :
    Cardinality({i \in CallsOf(u) : calls[i].src = "timer"}) <= 1

C4_NoEmissionAfterDisconnect ==
  [][ discTimer => calls' = calls ]_vars

\* C5: an open, close, error or message event of a socket created before the
\* last disconnect() changes none of status, error, provisional text and
\* transcript, and does not invoke the callback.
C5_LateEventsAreInert ==
  [][ \A h \in Handles :
        ( /\ socks[h].pre
          /\ \/ SocketOpen(h)
             \/ SocketClose(h)
             \/ SocketError(h)
             \/ \E f \in CoreFrames :
                  FinalizedFrame(h, f) \/ RealtimeFrame(h, f) \/ IgnoredFrame(h, f) )
        => UNCHANGED << status, error, realtimeText, fullSentences,
                        fullTranscript, calls >> ]_vars

\* C6: a finalized frame whose text is missing, empty or whitespace-only leaves
\* the sentence sequence, the joined transcript and the callback log unchanged.
C6_BlankFinalizedIsNoop ==
  [][ \A h \in Handles, f \in Frames :
        (FinalizedFrame(h, f) /\ ~Truthy(Trim(TextOf(f))))
        => UNCHANGED << fullSentences, fullTranscript, calls >> ]_vars

\* C7: the status changes only along the stated machine: to connecting by
\* connect() from disconnected or error (to error when its constructor throws);
\* connecting to connected by the data open event; from connecting or connected
\* to disconnected by a close event and to error by a transport error; to
\* disconnected by disconnect().
C7_StatusMachine ==
  [][ status' # status =>
        \/ /\ last'.op = "connect"
           /\ status \in {"disconnected", "error"}
           /\ status' = "connecting"
        \/ /\ last'.op = "open"
           /\ status = "connecting"
           /\ status' = "connected"
        \/ /\ last'.op = "close"
           /\ status \in {"connecting", "connected"}
           /\ status' = "disconnected"
        \/ /\ last'.op = "connectThrow"
           /\ status' = "error"
        \/ /\ last'.op = "error"
           /\ status \in {"connecting", "connected"}
           /\ status' = "error"
        \/ /\ last'.op = "disconnect"
           /\ status' = "disconnected" ]_vars

\* C8: connect() called while status is 'connected' (and no constructor
\* throwing) creates no socket, keeps the handles and leaves status, error,
\* texts, transcript and timer as they are.
C8_ConnectWhileConnectedIsNoop ==
  [][ (status = "connected" /\ last'.op \in {"connectNoop", "connect"})
        => UNCHANGED << socks, wsRef, controlWsRef, status, error, realtimeText,
                        fullSentences, fullTranscript, debounceTimerRef,
                        timers >> ]_vars

\* C9: connect() called while status is 'connecting' and neither referenced
\* socket has opened creates no socket and keeps both handles.
C9_ConnectWhileConnectingIsNoop ==
  [][ ( /\ status = "connecting"
        /\ wsRef # NoSocket /\ socks[wsRef].st = "CONNECTING"
        /\ controlWsRef # NoSocket /\ socks[controlWsRef].st = "CONNECTING"
        /\ last'.op \in ConnectOps )
        => UNCHANGED << socks, wsRef, controlWsRef >> ]_vars

\* C10: disconnect() called while the control socket is open sends the stop
\* command on it before closing it.
C10_DisconnectSendsStop ==
  [][ (last'.op = "disconnect" /\ IsOpen(controlWsRef))
        => controlWsRef \in stopSent' ]_vars

\* C11: disconnect() from any state closes the two sockets the refs hold and
\* releases them, leaves no timer pending and sets status to 'disconnected';
\* a second disconnect() right after the first changes nothing of the sockets,
\* refs, status, error, texts, transcript, timer and callback log.
C11_DisconnectTotalIdempotent ==
  [][ last'.op = "disconnect" =>
        /\ \A h \in {controlWsRef, wsRef} \ {NoSocket} :
             socks'[h].st \notin {"CONNECTING", "OPEN"}
        /\ controlWsRef' = NoSocket
        /\ wsRef' = NoSocket
        /\ timers' = {}
        /\ debounceTimerRef' = NoTimer
        /\ status' = "disconnected"
        /\ last.op = "disconnect" =>
             UNCHANGED << socks, wsRef, controlWsRef, status, error,
                          realtimeText, fullSentences, fullTranscript,
                          debounceTimerRef, timers, calls, stopSent >> ]_vars

\* disconnect() has just run with both sockets open and a timer pending.
C11_Witness ==
  /\ last.op = "disconnect"
  /\ discTimer
  /\ \E c, d \in Handles :
       /\ socks[c].kind = "control" /\ socks[c].st = "CLOSING"
       /\ socks[d].kind = "data" /\ socks[d].st = "CLOSING"

\* C12: every sentence handed to the callback, by a finalized frame or by the
\* fallback timer, is also one of the sentences appended to the transcript.
C12_EmittedSentenceIsCommitted ==
  \A i \in DOMAIN calls :
    \E j \in DOMAIN fullSentences : fullSentences[j] = calls[i].text

\* C13: connect() called while status is 'error' sets status to 'connecting',
\* clears the error and creates the two sockets, whatever the state of the
\* socket that did not fail.
C13_ConnectFromErrorAccepted ==
  [][ (status = "error" /\ last'.op \in {"connectNoop", "connect"})
        => /\ status' = "connecting"
           /\ error' = NoError
           /\ Len(socks') = Len(socks) + 2 ]_vars

\* C14: every connect() that gets past its two guards creates a data socket
\* and holds it, whether or not the control socket could be created.
C14_ConnectAlwaysAttemptsData ==
  [][ last'.op \in {"connect", "connectThrow"}
        => /\ Len(socks') > Len(socks)
           /\ wsRef' > Len(socks)
           /\ socks'[wsRef'].kind = "data" ]_vars

\* C15: a data frame that fails to parse or carries an unrecognized type
\* changes none of status, error, provisional text, transcript, timer, sockets
\* and refs, raises no notification and does not invoke the callback.
C15_UnusableFrameIsInert ==
  [][ \A h \in Handles, f \in Frames :
        ( /\ f.type \in {"other", "malformed"}
          /\ FinalizedFrame(h, f) \/ RealtimeFrame(h, f) \/ IgnoredFrame(h, f) )
        => /\ UNCHANGED << status, error, realtimeText, fullSentences,
                           fullTranscript, debounceTimerRef, timers, calls,
                           socks, wsRef, controlWsRef >>
           /\ last'.toasts = 0 ]_vars

\* A malformed frame has just been received with a sentence committed and a
\* timer pending.
C15_Witness ==
  /\ last.op = "malformed"
  /\ status = "connected"
  /\ debounceTimerRef # NoTimer
  /\ Len(fullSentences) > 0

\* The next state a finalized frame with payload text field p gives, stated
\* without its type: timer cancelled, sentence appended, callback invoked once
\* when the sentence is non-empty, everything else as it was.
SentenceOutcome(p) ==
  /\ debounceTimerRef' = NoTimer
  /\ timers' = timers \ debounceTimerRef
  /\ fullSentences' = Append(fullSentences, TextOf(p))
  /\ fullTranscript' = fullTranscript \o <<" ">> \o TextOf(p)
  /\ calls' = IF Truthy(TextOf(p))
                THEN Append(calls, [text |-> TextOf(p), src |-> "server",
                                    utt |-> utt, raw |-> p.text])
                ELSE calls
  /\ UNCHANGED << socks, wsRef, controlWsRef, status, error, realtimeText >>

\* C16: in every state, a 'completed' frame and a 'fullSentence' frame with the
\* same text are both accepted by an open data socket, and each can only lead
\* to the one next state and callback invocation that the text determines.
C16_CompletedSameAsFullSentence ==
  \A h \in Handles, p \in Frames :
    (CanReceive(h) /\ p.type = "completed") =>
      LET q == [p EXCEPT !.type = "fullSentence"] IN
        /\ ENABLED FinalizedFrame(h, p)
        /\ ENABLED FinalizedFrame(h, q)
        /\ ~ ENABLED (FinalizedFrame(h, p) /\ ~SentenceOutcome(p))
        /\ ~ ENABLED (FinalizedFrame(h, q) /\ ~SentenceOutcome(p))

\* A 'completed' frame has just cancelled a pending timer and delivered its
\* sentence.
C16_Witness ==
  /\ last.op = "completed"
  /\ LooksComplete(Trim(realtimeText))
  /\ timers = {}
  /\ Len(fullSentences) = 1
  /\ Len(calls) = 1
  /\ calls[1].src = "server"

\* C17: whenever status is 'connected', the data socket held is open and the
\* control socket held has neither reported an error nor closed (read at its
\* weakest: the control socket may still be opening).
C17_ConnectedMeansBothUp ==
  status = "connected" =>
    /\ IsOpen(wsRef)
    /\ controlWsRef # NoSocket
    /\ socks[controlWsRef].st \in {"CONNECTING", "OPEN"}

\* C18: an error event on either socket sets status to 'error', sets an error
\* message and raises exactly one notification; a close event on an open
\* socket (no error, no close() call before it) sets status to 'disconnected',
\* leaves the error message as it is and raises no notification.
C18_ErrorAndCloseEvents ==
  [][ \A h \in Handles :
        /\ SocketError(h) =>
             /\ status' = "error"
             /\ error' # NoError
             /\ last'.toasts = 1
        /\ (SocketClose(h) /\ socks[h].st = "OPEN") =>
             /\ status' = "disconnected"
             /\ error' = error
             /\ last'.toasts = 0 ]_vars

\* C19: right after a finalized frame is processed no timer is pending, so a
\* timer armed before the frame cannot fire after it; and the call the frame
\* makes is the last entry of the callback log, with no timer call behind it.
C19_FinalizedCancelsTimer ==
  [][ \A h \in Handles, f \in Frames :
        FinalizedFrame(h, f) =>
          /\ timers' = {}
          /\ debounceTimerRef' = NoTimer
          /\ \A i \in DOMAIN calls' : i > Len(calls) => calls'[i].src = "server" ]_vars

\* A 'fullSentence' frame has just arrived while the timer armed by the
\* provisional text was still pending.
C19_Witness ==
  /\ last.op = "fullSentence"
  /\ nframes = 2
  /\ LooksComplete(Trim(realtimeText))
  /\ Len(calls) = 1
  /\ calls[1].src = "server"
  /\ timers = {}

\* C20: a provisional frame creates a timer exactly when its trimmed text is
\* non-empty, ends with '.', '?' or '!', and no timer is pending; in that case
\* the new timer is the one pending, and otherwise the timers are as they were.
\* It never commits a sentence or invokes the callback itself.
C20_ArmsIffCompleteAndIdle ==
  [][ \A h \in Handles, f \in Frames :
        RealtimeFrame(h, f) =>
          LET t == Trim(TextOf(f))
              complete == Len(t) > 0 /\ t[Len(t)] \in {".", "?", "!"}
              idle == debounceTimerRef = NoTimer /\ timers = {}
          IN /\ (complete /\ idle) =>
                  /\ Cardinality(timers') = 1
                  /\ debounceTimerRef' = timers'
                  /\ \A n \in timers' : n.text = t
             /\ ~(complete /\ idle) => UNCHANGED << debounceTimerRef, timers >>
             /\ UNCHANGED << fullSentences, fullTranscript, calls >> ]_vars

\* A provisional frame with surrounding whitespace has just armed the timer.
C20_Witness ==
  /\ last.op = "realtime"
  /\ realtimeText = <<" ", "b", "?", " ">>
  /\ Cardinality(timers) = 1
  /\ \A n \in timers : n.text = <<"b", "?">>

\* C21: a provisional frame received while a timer is pending leaves that timer
\* and the reference to it as they are, whatever the new text; and a pending
\* timer goes away only by firing, by a finalized frame or by disconnect().
C21_PendingTimerNotRestarted ==
  [][ /\ \A h \in Handles, f \in Frames :
           (RealtimeFrame(h, f) /\ debounceTimerRef # NoTimer)
             => UNCHANGED << debounceTimerRef, timers >>
      /\ \A t \in timers :
           t \notin timers'
             => last'.op \in {"timer", "completed", "fullSentence", "disconnect"} ]_vars

\* A punctuation-less provisional text has just arrived over a pending timer
\* that still holds the earlier text.
C21_Witness ==
  /\ last.op = "realtime"
  /\ ~LooksComplete(Trim(realtimeText))
  /\ debounceTimerRef # NoTimer
  /\ \A t \in timers : t.raw # realtimeText

\* C22: at most one timer is outstanding, and the timer reference is non-null
\* exactly when one is, in which case it refers to that timer.
C22_OneTimerTrackedByRef ==
  /\ Cardinality(timers) <= 1
  /\ (debounceTimerRef # NoTimer) <=> (timers # {})
  /\ debounceTimerRef = timers

\* A second timer is pending after an earlier one fired.
C22_Witness ==
  /\ Cardinality(timers) = 1
  /\ debounceTimerRef = timers
  /\ \E i \in DOMAIN calls : calls[i].src = "timer"

\* C23: a provisional frame sets the provisional text to the frame's text, or
\* to the empty string when the frame has no text field, whatever the previous
\* provisional text was, and at that step neither the transcript nor the
\* callback log changes.
C23_ProvisionalReplacesWholesale ==
  [][ \A h \in Handles, f \in Frames :
        RealtimeFrame(h, f) =>
          /\ realtimeText' = (IF f.has THEN f.text ELSE <<>>)
          /\ UNCHANGED << fullSentences, fullTranscript, calls >> ]_vars

\* A provisional frame has just replaced a longer provisional text, the one
\* that armed the pending timer.
C23_Witness ==
  /\ last.op = "realtime"
  /\ realtimeText = <<"a">>
  /\ \E t \in timers : Len(t.raw) > Len(realtimeText)
  /\ calls = <<>>

\* A sentence in normalized form: non-empty, no whitespace at either end.
IsNormalized(s) == Len(s) > 0 /\ Trim(s) = s

\* C24: every sentence of the transcript and every sentence passed to the
\* callback is non-empty and carries no leading or trailing whitespace.
C24_SentencesNormalized ==
  /\ \A j \in DOMAIN fullSentences : IsNormalized(fullSentences[j])
  /\ \A i \in DOMAIN calls : IsNormalized(calls[i].text)

\* The sentences of a sequence in order, each preceded by one space.
RECURSIVE Joined(_)
Joined(ss) ==
  IF ss = <<>> THEN <<>>
  ELSE Joined(SubSeq(ss, 1, Len(ss) - 1)) \o <<" ">> \o ss[Len(ss)]

IsPrefix(a, b) == Len(a) <= Len(b) /\ SubSeq(b, 1, Len(a)) = a

\* C25: every step keeps the sentence sequence it found as a prefix of the new
\* one, and leaves the joined transcript equal to the sentences of the new
\* sequence in order, each preceded by one space.
C25_TranscriptAppendOnly ==
  [][ /\ IsPrefix(fullSentences, fullSentences')
      /\ fullTranscript' = Joined(fullSentences') ]_vars

\* connect() has just run for a new session with two sentences committed.
C25_Witness ==
  /\ last.op = "connect"
  /\ Len(fullSentences) = 2
  /\ fullTranscript = Joined(fullSentences)

\* C26: every socket that is connecting or open is the one its handle refers
\* to, so there is at most one such control socket and one such data socket.
C26_LiveSocketsAreReferenced ==
  \A h \in Handles :
    socks[h].st \in {"CONNECTING", "OPEN"} =>
      IF socks[h].kind = "control" THEN controlWsRef = h ELSE wsRef = h

\* C27: whenever status is 'connected' the error message is null.
C27_ConnectedMeansNoError ==
  status = "connected" => error = NoError

\* C28: whenever status is 'disconnected' the data socket the client refers to
\* is not open.
C28_DisconnectedMeansDataNotOpen ==
  status = "disconnected" => ~IsOpen(wsRef)

\* C29: every invocation of the callback happens in a state whose status is
\* 'connected'.
C29_EmissionOnlyWhileConnected ==
  [][ calls' # calls => status = "connected" ]_vars

\* C30: once the unmount cleanup has started, the callback is not invoked
\* again, by the timer or by a frame.
C30_NoEmissionAfterUnmount ==
  [][ mount # "mounted" => calls' = calls ]_vars

====
